---- MODULE Spec2Model ----
(***************************************************************************)
(* A model of go-albumcatalog: the HTTP handlers of http-handlers.go over  *)
(* the Postgres album storage (pgAlbumStorage), with the album table of    *)
(* the goose migration as the shared state.  Every request is a process    *)
(* that takes one atomic step per storage statement it executes; the       *)
(* handler's local computation between two statements belongs to the step  *)
(* of the statement that follows it.  main's run is the process around     *)
(* them: it serves until the interrupt, then shuts the server down.        *)
(***************************************************************************)
EXTENDS Integers, Sequences, FiniteSets, TLC

VARIABLES
    table,      \* the album table: a function from the stored ids to their rows
    clock,      \* the instant time.Now() reports, in nanoseconds
    ticks,      \* how often the clock has advanced
    reqs,       \* the requests being served, one per connection
    started,    \* how many requests have been accepted so far
    issued,     \* the ids in use: those the table started with and those newID() returned
    run         \* where main's run stands, and the seconds its Shutdown has waited

vars == <<table, clock, ticks, reqs, started, issued, run>>

----------------------------------------------------------------------------
(* Bounds of the model. *)

\* Requests accepted in one behaviour.
MaxRequests == 2

\* Advances of the clock in one behaviour.
MaxTicks == 1

\* Width of the machine int, scaled down from Go's 64 bits so that the
\* largest int stays inside the model checker's own integers.
IntBits == 24

\* Offset of time.Local from UTC, in nanoseconds.
LocalOffset == 7000

\* Connections served at the same time.
Conns == {1, 2}

----------------------------------------------------------------------------
(* Program constants. *)

\* http-handlers.go: const maxAlbumsPageSize = 50
maxAlbumsPageSize == 50

\* migration: title varchar (255), artist varchar (255)
VarcharLen == 255

\* migration: created_at/updated_at are of type timestamp, which holds
\* microseconds; instants of the model are in nanoseconds.
NanosPerMicro == 1000

\* migration: price is double precision, scanned back into Album.Price (int):
\* database/sql renders the float64 with strconv.FormatFloat(f, 'g', -1, 64),
\* which switches to exponent notation from this magnitude on, and
\* strconv.ParseInt rejects that.
FloatExponentFrom == 1000000

MaxInt == 2^(IntBits - 1) - 1
MinInt == -(2^(IntBits - 1))

----------------------------------------------------------------------------
(* Errors. *)

Nil == "nil"
\* var ErrAlbumNotFound = errors.New("album not found")
ErrAlbumNotFound == "album not found"
\* any error of the driver or the database (connection lost, constraint violated)
ErrDriver == "driver error"
\* the error of Scan when a column does not convert to its destination
ErrScan == "scan error"
\* sql.ErrNoRows
ErrNoRows == "sql: no rows in result set"

----------------------------------------------------------------------------
(* Text: a string is a sequence of one-character strings. *)

Str1(a) == <<a>>
EmptyString == <<>>

Digits == {"0", "1", "2", "3", "4", "5", "6", "7", "8", "9"}

DigitValue(c) ==
    CASE c = "0" -> 0 [] c = "1" -> 1 [] c = "2" -> 2 [] c = "3" -> 3
      [] c = "4" -> 4 [] c = "5" -> 5 [] c = "6" -> 6 [] c = "7" -> 7
      [] c = "8" -> 8 [] c = "9" -> 9

\* The magnitude of a digit string, capped just above the int range so that
\* an overlong number stays out of range without leaving the integers.
RECURSIVE Magnitude(_, _)
Magnitude(s, acc) ==
    IF s = <<>> THEN acc
    ELSE LET next == acc * 10 + DigitValue(Head(s))
         IN  Magnitude(Tail(s), IF next > MaxInt + 1 THEN MaxInt + 2 ELSE next)

\* strconv.Atoi: an optional sign, then one or more decimal digits, in the
\* range of int.
Atoi(s) ==
    LET signed == s # <<>> /\ Head(s) \in {"+", "-"}
        neg    == s # <<>> /\ Head(s) = "-"
        digits == IF signed THEN Tail(s) ELSE s
    IN  IF digits = <<>> \/ \E i \in 1..Len(digits) : digits[i] \notin Digits
        THEN [err |-> "invalid syntax", n |-> 0]
        ELSE LET m == Magnitude(digits, 0)
             IN  IF neg
                 THEN IF m > MaxInt + 1
                      THEN [err |-> "value out of range", n |-> MinInt]
                      ELSE [err |-> Nil, n |-> -m]
                 ELSE IF m > MaxInt
                      THEN [err |-> "value out of range", n |-> MaxInt]
                      ELSE [err |-> Nil, n |-> m]

----------------------------------------------------------------------------
(* time.Time: an instant (nanoseconds) and the location it is shown in. *)

Offset(loc) == IF loc = "Local" THEN LocalOffset ELSE 0

\* Time.UTC() and Time.Local(): the same instant in another location.
UTC(t) == [t EXCEPT !.loc = "UTC"]
Local(t) == [t EXCEPT !.loc = "Local"]

\* The zero time.Time, in UTC.
ZeroTime == [ns |-> 0, loc |-> "UTC"]

\* The date and time t shows in its own location.
WallClock(t) == t.ns + Offset(t.loc)

\* Time.MarshalJSON (RFC 3339 with nanoseconds): the wall clock and the zone offset.
MarshalTime(t) == [wall |-> WallClock(t), offset |-> Offset(t.loc)]

\* The nearest whole microsecond.
RoundMicros(n) == ((n + NanosPerMicro \div 2) \div NanosPerMicro) * NanosPerMicro

\* A time.Time bound to a column of type timestamp (without time zone): the
\* driver sends date, time and zone, the column keeps date and time, rounded
\* to microseconds.
TimestampIn(t) == RoundMicros(WallClock(t))

\* A timestamp column scanned into a time.Time: the driver reads it as UTC.
TimestampOut(col) == [ns |-> col, loc |-> "UTC"]

----------------------------------------------------------------------------
(* Album (album.go) and the rows of the album table (the migration). *)

NilUUID == "00000000"

\* The ids uuid.New() draws from.
UUIDs == {"a1", "b2"}

ZeroAlbum ==
    [id |-> NilUUID, title |-> EmptyString, artist |-> EmptyString, price |-> 0,
     created_at |-> ZeroTime, updated_at |-> ZeroTime]

\* The values Insert and Update bind to the columns of a row.
AlbumRow(alb) ==
    [title      |-> alb.title,
     artist     |-> alb.artist,
     price      |-> alb.price,
     created_at |-> TimestampIn(UTC(alb.created_at)),
     updated_at |-> TimestampIn(UTC(alb.updated_at))]

\* The check of varchar (255) on title and artist.
FitsColumns(alb) == Len(alb.title) <= VarcharLen /\ Len(alb.artist) <= VarcharLen

\* The table with the row of id set.
WithRow(tbl, id, row) ==
    [i \in DOMAIN tbl \cup {id} |-> IF i = id THEN row ELSE tbl[i]]

\* The table without the row of id.
WithoutRow(tbl, id) == [i \in DOMAIN tbl \ {id} |-> tbl[i]]

\* The double precision price scanned into an int: the float64 is rendered
\* with the 'g' format and parsed as an integer, which fails on an exponent.
ScanPrice(col) ==
    IF col >= FloatExponentFrom \/ col <= -FloatExponentFrom
    THEN [err |-> ErrScan, n |-> 0]
    ELSE [err |-> Nil, n |-> col]

\* scanAlbum: rows is the rest of the result set, a sequence of <<id, row>>.
scanAlbum(rows) ==
    IF rows = <<>> THEN [alb |-> ZeroAlbum, err |-> ErrNoRows]
    ELSE LET id    == Head(rows)[1]
             row   == Head(rows)[2]
             price == ScanPrice(row.price)
         IN  IF price.err # Nil THEN [alb |-> ZeroAlbum, err |-> price.err]
             ELSE [alb |-> [id         |-> id,
                            title      |-> row.title,
                            artist     |-> row.artist,
                            price      |-> price.n,
                            created_at |-> Local(TimestampOut(row.created_at)),
                            updated_at |-> Local(TimestampOut(row.updated_at))],
                   err |-> Nil]

----------------------------------------------------------------------------
(* The order of ORDER BY title ASC under the collation of the database     *)
(* (en_US.utf8, the default of the postgres:16.3 image): letters compare   *)
(* without case first and, when that ties, lower case before upper case.   *)

ToLower(c) == CASE c = "A" -> "a" [] c = "B" -> "b" [] OTHER -> c

PrimaryWeight(c) ==
    CASE ToLower(c) = "a" -> 1 [] ToLower(c) = "b" -> 2 [] OTHER -> 0

CaseWeight(c) == IF c = ToLower(c) THEN 0 ELSE 1

\* The code of a character in ASCII.
ByteValue(c) ==
    CASE c = "A" -> 65 [] c = "B" -> 66 [] c = "a" -> 97 [] c = "b" -> 98
      [] OTHER -> 0

\* Lexicographic order of two sequences of numbers.
RECURSIVE LexLess(_, _)
LexLess(a, b) ==
    IF b = <<>> THEN FALSE
    ELSE IF a = <<>> THEN TRUE
    ELSE IF Head(a) # Head(b) THEN Head(a) < Head(b)
    ELSE LexLess(Tail(a), Tail(b))

PrimaryWeights(s) == [i \in 1..Len(s) |-> PrimaryWeight(s[i])]
CaseWeights(s) == [i \in 1..Len(s) |-> CaseWeight(s[i])]
Bytes(s) == [i \in 1..Len(s) |-> ByteValue(s[i])]

\* Byte order, the order of the C collation.
BytesLess(s, t) == LexLess(Bytes(s), Bytes(t))

CollateLess(s, t) ==
    \/ LexLess(PrimaryWeights(s), PrimaryWeights(t))
    \/ /\ PrimaryWeights(s) = PrimaryWeights(t)
       /\ LexLess(CaseWeights(s), CaseWeights(t))

\* The orders a query with ORDER BY title ASC may return the rows in: rows
\* of equal title come in any order.
Orderings(S) ==
    {p \in [1..Cardinality(S) -> S] : \A i, j \in 1..Cardinality(S) : i # j => p[i] # p[j]}

TitleOrders(tbl) ==
    {p \in Orderings(DOMAIN tbl) :
        \A i, j \in 1..Len(p) : i < j => ~CollateLess(tbl[p[j]].title, tbl[p[i]].title)}

----------------------------------------------------------------------------
(* pgAlbumStorage.  fail says that the statement fails in the driver or    *)
(* the database for a reason outside the program (connection lost,         *)
(* context cancelled).                                                     *)

\* Insert as INSERT ... ON CONFLICT (id) DO UPDATE: a stored id is written
\* over.
InsertOverwrites(tbl, alb, fail) ==
    IF fail \/ ~FitsColumns(alb)
    THEN [table |-> tbl, err |-> ErrDriver]
    ELSE [table |-> WithRow(tbl, alb.id, AlbumRow(alb)), err |-> Nil]

Insert(tbl, alb, fail) ==
    IF fail \/ alb.id \in DOMAIN tbl \/ ~FitsColumns(alb)
    THEN [table |-> tbl, err |-> ErrDriver]
    ELSE [table |-> WithRow(tbl, alb.id, AlbumRow(alb)), err |-> Nil]

\* FindOne without its translation of sql.ErrNoRows.
FindOneNoRows(tbl, id, fail) ==
    IF fail THEN [alb |-> ZeroAlbum, err |-> ErrDriver]
    ELSE LET rows == IF id \in DOMAIN tbl THEN << <<id, tbl[id]>> >> ELSE <<>>
             got  == scanAlbum(rows)
         IN  IF got.err # Nil THEN [alb |-> ZeroAlbum, err |-> got.err]
             ELSE [alb |-> got.alb, err |-> Nil]

FindOne(tbl, id, fail) ==
    IF fail THEN [alb |-> ZeroAlbum, err |-> ErrDriver]
    ELSE LET rows == IF id \in DOMAIN tbl THEN << <<id, tbl[id]>> >> ELSE <<>>
             got  == scanAlbum(rows)
         IN  IF got.err = ErrNoRows THEN [alb |-> ZeroAlbum, err |-> ErrAlbumNotFound]
             ELSE IF got.err # Nil THEN [alb |-> ZeroAlbum, err |-> got.err]
             ELSE [alb |-> got.alb, err |-> Nil]

\* Update as an upsert: a missing row is written instead of reported.
UpdateOrInsert(tbl, alb, fail) ==
    IF fail THEN [table |-> tbl, err |-> ErrDriver]
    ELSE IF ~FitsColumns(alb) THEN [table |-> tbl, err |-> ErrDriver]
    ELSE [table |-> WithRow(tbl, alb.id, AlbumRow(alb)), err |-> Nil]

Update(tbl, alb, fail) ==
    IF fail THEN [table |-> tbl, err |-> ErrDriver]
    ELSE IF alb.id \notin DOMAIN tbl THEN [table |-> tbl, err |-> ErrAlbumNotFound]
    ELSE IF ~FitsColumns(alb) THEN [table |-> tbl, err |-> ErrDriver]
    ELSE [table |-> WithRow(tbl, alb.id, AlbumRow(alb)), err |-> Nil]

\* Remove that reports success and deletes nothing.
RemoveKeepsRow(tbl, id, fail) ==
    IF fail THEN [table |-> tbl, err |-> ErrDriver]
    ELSE IF id \notin DOMAIN tbl THEN [table |-> tbl, err |-> ErrAlbumNotFound]
    ELSE [table |-> tbl, err |-> Nil]

\* Remove with its WHERE clause lost: every row is deleted.
RemoveEveryRow(tbl, id, fail) ==
    IF fail THEN [table |-> tbl, err |-> ErrDriver]
    ELSE IF id \notin DOMAIN tbl THEN [table |-> tbl, err |-> ErrAlbumNotFound]
    ELSE [table |-> [i \in {} |-> tbl[id]], err |-> Nil]

\* Remove without its check of the rows affected: deleting nothing is a
\* success.
RemoveIgnoresRowsAffected(tbl, id, fail) ==
    IF fail THEN [table |-> tbl, err |-> ErrDriver]
    ELSE IF id \notin DOMAIN tbl THEN [table |-> tbl, err |-> Nil]
    ELSE [table |-> WithoutRow(tbl, id), err |-> Nil]

Remove(tbl, id, fail) ==
    IF fail THEN [table |-> tbl, err |-> ErrDriver]
    ELSE IF id \notin DOMAIN tbl THEN [table |-> tbl, err |-> ErrAlbumNotFound]
    ELSE [table |-> WithoutRow(tbl, id), err |-> Nil]

\* The rows OFFSET offset LIMIT limit keeps of the ordered rows.
Window(order, offset, limit) ==
    SubSeq(order, offset + 1, IF offset + limit < Len(order) THEN offset + limit ELSE Len(order))

\* A Go slice: nil, or a sequence of items.
NilSlice == [isnil |-> TRUE, items |-> <<>>]
MakeSlice(items) == [isnil |-> FALSE, items |-> items]

\* The loop of FindAll over the rows: the albums scanned, or the first error.
RECURSIVE scanAll(_, _)
scanAll(rows, albs) ==
    IF rows = <<>> THEN [albs |-> albs, err |-> Nil]
    ELSE LET got == scanAlbum(rows)
         IN  IF got.err # Nil THEN [albs |-> <<>>, err |-> got.err]
             ELSE scanAll(Tail(rows), Append(albs, got.alb))

\* order is the order the database returns the rows in, one of TitleOrders(tbl).
FindAll(tbl, order, offset, limit, fail) ==
    IF fail \/ offset < 0 \/ limit < 0 THEN [albs |-> NilSlice, err |-> ErrDriver]
    ELSE LET ids  == Window(order, offset, limit)
             rows == [i \in 1..Len(ids) |-> <<ids[i], tbl[ids[i]]>>]
             got  == scanAll(rows, <<>>)
         IN  IF got.err # Nil THEN [albs |-> NilSlice, err |-> got.err]
             ELSE IF Len(got.albs) = 0 THEN [albs |-> NilSlice, err |-> ErrAlbumNotFound]
             ELSE [albs |-> MakeSlice(got.albs), err |-> Nil]

----------------------------------------------------------------------------
(* Requests and responses (http-utils.go). *)

\* url.Values of the two page parameters: a function from the keys given.
QHas(q, key) == key \in DOMAIN q
QGet(q, key) == IF key \in DOMAIN q THEN q[key] ELSE EmptyString

NoQuery == [k \in {} |-> EmptyString]
NoProblems == [k \in {} |-> ""]

\* uuid.Parse of the path value: the hexadecimal digits in either case.
ParseUUID(path) ==
    CASE path \in {"a1", "A1"} -> [id |-> "a1", err |-> Nil]
      [] path \in {"b2", "B2"} -> [id |-> "b2", err |-> Nil]
      [] OTHER -> [id |-> NilUUID, err |-> "invalid UUID"]

\* type request struct
ZeroRequest == [title |-> EmptyString, artist |-> EmptyString, price |-> 0]

\* A request body: json says whether it is JSON that fits the request struct,
\* has names the members it gives.
NoBody == [json |-> FALSE, has |-> {}, title |-> EmptyString, artist |-> EmptyString, price |-> 0]

\* decode[request]: a member the body leaves out keeps its zero value.
decode(body) ==
    IF ~body.json THEN [req |-> ZeroRequest, err |-> "decoding json"]
    ELSE [req |-> [title  |-> IF "title" \in body.has THEN body.title ELSE EmptyString,
                   artist |-> IF "artist" \in body.has THEN body.artist ELSE EmptyString,
                   price  |-> IF "price" \in body.has THEN body.price ELSE 0],
          err |-> Nil]

\* Valid with the price compared by < where the code has <=.
ValidZeroPrice(req) ==
    LET keys == (IF req.title = EmptyString THEN {"title"} ELSE {})
           \cup (IF req.artist = EmptyString THEN {"artist"} ELSE {})
           \cup (IF req.price < 0 THEN {"price"} ELSE {})
    IN  [k \in keys |-> IF k = "price" THEN "is not greater than zero" ELSE "is empty"]

\* Valid without its check of the price.
ValidAnyPrice(req) ==
    LET keys == (IF req.title = EmptyString THEN {"title"} ELSE {})
           \cup (IF req.artist = EmptyString THEN {"artist"} ELSE {})
    IN  [k \in keys |-> "is empty"]

\* request.Valid, which catalog.Validate calls.
Valid(req) ==
    LET keys == (IF req.title = EmptyString THEN {"title"} ELSE {})
           \cup (IF req.artist = EmptyString THEN {"artist"} ELSE {})
           \cup (IF req.price <= 0 THEN {"price"} ELSE {})
    IN  [k \in keys |-> IF k = "price" THEN "is not greater than zero" ELSE "is empty"]

\* The validator main.go passes to NewServer.
validate(req) == Valid(req)

\* Album as encoding/json writes it.
MarshalAlbum(alb) ==
    [id         |-> alb.id,
     title      |-> alb.title,
     artist     |-> alb.artist,
     price      |-> alb.price,
     created_at |-> MarshalTime(alb.created_at),
     updated_at |-> MarshalTime(alb.updated_at)]

NoResp == [status |-> 0, kind |-> "none", message |-> "", problems |-> NoProblems, albums |-> <<>>]

\* encode of an Album.
encodeAlbum(statusCode, alb) ==
    [status |-> statusCode, kind |-> "album", message |-> "", problems |-> NoProblems,
     albums |-> <<MarshalAlbum(alb)>>]

\* encode of a []Album: a nil slice is written as null, any other as an array.
encodeAlbums(statusCode, albs) ==
    [status |-> statusCode, kind |-> IF albs.isnil THEN "null" ELSE "array", message |-> "",
     problems |-> NoProblems,
     albums |-> [i \in 1..Len(albs.items) |-> MarshalAlbum(albs.items[i])]]

encodeMessage(statusCode, msg) ==
    [status |-> statusCode, kind |-> "message", message |-> msg, problems |-> NoProblems,
     albums |-> <<>>]

encodeProblems(statusCode, msg, problems) ==
    [status |-> statusCode, kind |-> "problems", message |-> msg, problems |-> problems,
     albums |-> <<>>]

\* net/http status codes.
StatusOK == 200
StatusCreated == 201
StatusBadRequest == 400
StatusNotFound == 404
StatusInternalServerError == 500

\* time.Now(), passed to NewServer as timeNow.
timeNow == [ns |-> clock, loc |-> "Local"]

\* A connection with no request on it.
IdleReq ==
    [kind |-> "idle", pc |-> "idle", path |-> "", body |-> NoBody, query |-> NoQuery,
     albID |-> NilUUID, req |-> ZeroRequest, alb |-> ZeroAlbum,
     calls |-> <<>>, logs |-> <<>>, resp |-> NoResp]

\* A storage call as the request made it, with the error it returned.
Call(op, id, offset, limit, err) ==
    [op |-> op, id |-> id, offset |-> offset, limit |-> limit, err |-> err]

\* The request has written its response.
Respond(r, resp) == [r EXCEPT !.pc = "done", !.resp = resp]

\* logger.Error, then the generic 500.
InternalError(r, logmsg) ==
    Respond([r EXCEPT !.logs = Append(@, logmsg)],
            encodeMessage(StatusInternalServerError, "internal error"))

\* The machine int a product wraps around to.
WrapInt(n) == ((n - MinInt) % (2^IntBits)) + MinInt

----------------------------------------------------------------------------
(* The handlers (http-handlers.go), as functions of the request so far.    *)

\* createAlbumHandler up to the call of Insert.
createStart(body, id) ==
    LET r0 == [IdleReq EXCEPT !.kind = "create", !.body = body]
        d  == decode(body)
    IN  IF d.err # Nil
        THEN Respond(r0, encodeMessage(StatusBadRequest, "malformed request body"))
        ELSE IF DOMAIN validate(d.req) # {}
        THEN Respond([r0 EXCEPT !.req = d.req],
                     encodeProblems(StatusBadRequest, "invalid request body", validate(d.req)))
        ELSE [r0 EXCEPT !.req = d.req,
                        !.pc  = "insert",
                        !.alb = [id         |-> id,
                                 title      |-> d.req.title,
                                 artist     |-> d.req.artist,
                                 price      |-> d.req.price,
                                 created_at |-> timeNow,
                                 updated_at |-> timeNow]]

\* createAlbumHandler from the return of Insert on.
createInsert(r, err) ==
    LET r1 == [r EXCEPT !.calls = Append(@, Call("Insert", r.alb.id, 0, 0, err))]
    IN  IF err # Nil THEN InternalError(r1, "inserting album into the storage")
        ELSE Respond(r1, encodeAlbum(StatusCreated, r.alb))

\* listAlbumsHandler, the extraction of the page parameters: the message of
\* the first problem, or "" when both are numbers.
pageParseProblem(query) ==
    IF ~QHas(query, "page_size") THEN "query parameter page_size is missing"
    ELSE IF Atoi(QGet(query, "page_size")).err # Nil THEN "page size is not a valid number"
    ELSE IF ~QHas(query, "page_number") THEN "query parameter page_number is missing"
    ELSE IF Atoi(QGet(query, "page_number")).err # Nil THEN "page number is not a valid number"
    ELSE ""

\* The range check without its test of the page number.
pageRangeProblemSizeOnly(pageSize, pageNumber) ==
    IF pageSize < 1 THEN "page size is less than 1"
    ELSE IF pageSize > maxAlbumsPageSize THEN "page size is greater than 50"
    ELSE ""

\* listAlbumsHandler, the validation of page size and page number.
pageRangeProblem(pageSize, pageNumber) ==
    IF pageSize < 1 THEN "page size is less than 1"
    ELSE IF pageSize > maxAlbumsPageSize THEN "page size is greater than 50"
    ELSE IF pageNumber < 1 THEN "page number is less than 1"
    ELSE ""

\* The offset computed from the page number itself, one page too far.
pageOffsetFromPageNumber(pageSize, pageNumber) == WrapInt(pageSize * pageNumber)

\* offset := pageSize*(pageNumber-1), in machine arithmetic.
pageOffset(pageSize, pageNumber) == WrapInt(pageSize * WrapInt(pageNumber - 1))

\* listAlbumsHandler up to the call of FindAll: the response of a rejected
\* request, or the offset and limit to query.
listStart(query) ==
    LET r0   == [IdleReq EXCEPT !.kind = "list", !.query = query]
        size == Atoi(QGet(query, "page_size")).n
        num  == Atoi(QGet(query, "page_number")).n
        bad(msg) == [r |-> Respond(r0, encodeMessage(StatusBadRequest, msg)),
                     offset |-> 0, limit |-> 0]
    IN  IF pageParseProblem(query) # "" THEN bad(pageParseProblem(query))
        ELSE IF pageRangeProblem(size, num) # "" THEN bad(pageRangeProblem(size, num))
        ELSE [r |-> [r0 EXCEPT !.pc = "findall"],
              offset |-> pageOffset(size, num), limit |-> size]

\* listAlbumsHandler logging every error of FindAll, ErrAlbumNotFound too.
listFoundLogged(r, offset, limit, got) ==
    LET r1 == [r EXCEPT !.calls = Append(@, Call("FindAll", NilUUID, offset, limit, got.err))]
        r2 == [r1 EXCEPT !.logs = Append(@, "finding albums in the storage")]
    IN  IF got.err = ErrAlbumNotFound
        THEN Respond(r2, encodeAlbums(StatusOK, MakeSlice(<<>>)))
        ELSE IF got.err # Nil THEN InternalError(r1, "finding albums in the storage")
        ELSE Respond(r1, encodeAlbums(StatusOK, got.albs))

\* listAlbumsHandler answering ErrAlbumNotFound as the other handlers do.
listFoundNotFound(r, offset, limit, got) ==
    LET r1 == [r EXCEPT !.calls = Append(@, Call("FindAll", NilUUID, offset, limit, got.err))]
    IN  IF got.err = ErrAlbumNotFound
        THEN Respond(r1, encodeMessage(StatusNotFound, "album not found"))
        ELSE IF got.err # Nil THEN InternalError(r1, "finding albums in the storage")
        ELSE Respond(r1, encodeAlbums(StatusOK, got.albs))

\* listAlbumsHandler from the return of FindAll on.
listFound(r, offset, limit, got) ==
    LET r1 == [r EXCEPT !.calls = Append(@, Call("FindAll", NilUUID, offset, limit, got.err))]
    IN  IF got.err = ErrAlbumNotFound
        THEN Respond(r1, encodeAlbums(StatusOK, MakeSlice(<<>>)))
        ELSE IF got.err # Nil THEN InternalError(r1, "finding albums in the storage")
        ELSE Respond(r1, encodeAlbums(StatusOK, got.albs))

\* getAlbumHandler up to the call of FindOne.
getStart(path) ==
    LET r0 == [IdleReq EXCEPT !.kind = "get", !.path = path]
        id == ParseUUID(path)
    IN  IF id.err # Nil THEN Respond(r0, encodeMessage(StatusBadRequest, "malformed album id"))
        ELSE [r0 EXCEPT !.albID = id.id, !.pc = "findone"]

\* The switch without its case for ErrAlbumNotFound.
afterFindOneAnyError(r, got, next) ==
    LET r1 == [r EXCEPT !.calls = Append(@, Call("FindOne", r.albID, 0, 0, got.err))]
    IN  IF got.err # Nil THEN InternalError(r1, "finding one album in the storage")
        ELSE [r1 EXCEPT !.alb = got.alb, !.pc = next]

\* The switch on the error of FindOne that the get, update and delete
\* handlers share; next is where the handler goes on with the album found.
afterFindOne(r, got, next) ==
    LET r1 == [r EXCEPT !.calls = Append(@, Call("FindOne", r.albID, 0, 0, got.err))]
    IN  IF got.err = ErrAlbumNotFound
        THEN Respond(r1, encodeMessage(StatusNotFound, "album not found"))
        ELSE IF got.err # Nil THEN InternalError(r1, "finding one album in the storage")
        ELSE [r1 EXCEPT !.alb = got.alb, !.pc = next]

\* getAlbumHandler asking the storage a second time for the album found.
getFoundTwice(r, got) ==
    LET r1 == afterFindOne(r, got, "found")
        r2 == [r1 EXCEPT !.calls = Append(@, Call("FindOne", r.albID, 0, 0, got.err))]
    IN  IF r1.pc = "found" THEN Respond(r2, encodeAlbum(StatusOK, r1.alb)) ELSE r1

\* getAlbumHandler from the return of FindOne on.
getFound(r, got) ==
    LET r1 == afterFindOne(r, got, "found")
    IN  IF r1.pc = "found" THEN Respond(r1, encodeAlbum(StatusOK, r1.alb)) ELSE r1

\* updateAlbumHandler decoding the body before it parses the id.
updateStartBodyFirst(path, body) ==
    LET r0 == [IdleReq EXCEPT !.kind = "update", !.path = path, !.body = body]
        id == ParseUUID(path)
        d  == decode(body)
    IN  IF d.err # Nil
        THEN Respond(r0, encodeMessage(StatusBadRequest, "malformed request body"))
        ELSE IF id.err # Nil
        THEN Respond([r0 EXCEPT !.req = d.req],
                     encodeMessage(StatusBadRequest, "malformed album id"))
        ELSE IF DOMAIN validate(d.req) # {}
        THEN Respond([r0 EXCEPT !.albID = id.id, !.req = d.req],
                     encodeProblems(StatusBadRequest, "invalid request body", validate(d.req)))
        ELSE [r0 EXCEPT !.albID = id.id, !.req = d.req, !.pc = "findone"]

\* updateAlbumHandler up to the call of FindOne.
updateStart(path, body) ==
    LET r0 == [IdleReq EXCEPT !.kind = "update", !.path = path, !.body = body]
        id == ParseUUID(path)
        d  == decode(body)
    IN  IF id.err # Nil THEN Respond(r0, encodeMessage(StatusBadRequest, "malformed album id"))
        ELSE IF d.err # Nil
        THEN Respond([r0 EXCEPT !.albID = id.id],
                     encodeMessage(StatusBadRequest, "malformed request body"))
        ELSE IF DOMAIN validate(d.req) # {}
        THEN Respond([r0 EXCEPT !.albID = id.id, !.req = d.req],
                     encodeProblems(StatusBadRequest, "invalid request body", validate(d.req)))
        ELSE [r0 EXCEPT !.albID = id.id, !.req = d.req, !.pc = "findone"]

\* updateAlbumHandler between FindOne and Update: the album found takes the
\* title, artist and price of the request and the time of the update.
\* The stamp of a handler that takes the time of the update for created_at
\* as well.
updateStampCreatedAt(r) ==
    [r EXCEPT !.alb = [@ EXCEPT !.title      = r.req.title,
                                !.artist     = r.req.artist,
                                !.price      = r.req.price,
                                !.created_at = timeNow,
                                !.updated_at = timeNow],
              !.pc  = "update"]

updateStamp(r) ==
    [r EXCEPT !.alb = [@ EXCEPT !.title      = r.req.title,
                                !.artist     = r.req.artist,
                                !.price      = r.req.price,
                                !.updated_at = timeNow],
              !.pc  = "update"]

\* updateAlbumHandler from the return of Update on.
updateDone(r, err) ==
    LET r1 == [r EXCEPT !.calls = Append(@, Call("Update", r.alb.id, 0, 0, err))]
    IN  IF err = ErrAlbumNotFound
        THEN Respond(r1, encodeMessage(StatusNotFound, "album not found"))
        ELSE IF err # Nil THEN InternalError(r1, "updating album in the storage")
        ELSE Respond(r1, encodeAlbum(StatusOK, r.alb))

\* deleteAlbumHandler up to the call of FindOne.
deleteStart(path) ==
    LET r0 == [IdleReq EXCEPT !.kind = "delete", !.path = path]
        id == ParseUUID(path)
    IN  IF id.err # Nil THEN Respond(r0, encodeMessage(StatusBadRequest, "malformed album id"))
        ELSE [r0 EXCEPT !.albID = id.id, !.pc = "findone"]

\* deleteAlbumHandler from the return of Remove on.
deleteDone(r, err) ==
    LET r1 == [r EXCEPT !.calls = Append(@, Call("Remove", r.albID, 0, 0, err))]
    IN  IF err = ErrAlbumNotFound
        THEN Respond(r1, encodeMessage(StatusNotFound, "album not found"))
        ELSE IF err # Nil THEN InternalError(r1, "removing album from the storage")
        ELSE Respond(r1, encodeAlbum(StatusOK, r.alb))

----------------------------------------------------------------------------
(* What the clients send. *)

Body(title, artist, price) ==
    [json |-> TRUE, has |-> {"title", "artist", "price"},
     title |-> title, artist |-> artist, price |-> price]

\* Request bodies: not JSON, an object without members, one member invalid
\* at a time, and valid ones.
Bodies ==
    { NoBody,
      [NoBody EXCEPT !.json = TRUE],
      Body(EmptyString, Str1("x"), 5),
      Body(Str1("a"), EmptyString, 5),
      Body(Str1("a"), Str1("x"), 0),
      Body(Str1("a"), Str1("x"), 5),
      Body(Str1("B"), Str1("y"), FloatExponentFrom) }

\* Values of the {album_id} path segment.
Paths == {"A1", "b2", "zz"}

Query(size, number) ==
    [k \in {"page_size", "page_number"} |-> IF k = "page_size" THEN size ELSE number]

\* Query strings of GET /albums.
Queries ==
    { NoQuery,
      Query(<<"1">>, <<"1">>),
      Query(<<"1">>, <<"2">>),
      Query(<<"5", "1">>, <<"1">>),
      Query(<<"1">>, <<"x">>) }

\* The steps the clock advances by, in nanoseconds.
TickSteps == {400, NanosPerMicro}

----------------------------------------------------------------------------
(* The state machine. *)

EmptyTable == [i \in {} |-> AlbumRow(ZeroAlbum)]

\* The database outlives the process: the server starts on an empty table or
\* on what earlier requests left in it, here the row that POST /albums with
\* Body("b", "x", 7) left when the clock stood at zero.
InitTables ==
    { EmptyTable,
      WithRow(EmptyTable, "a1",
              AlbumRow([id |-> "a1", title |-> Str1("b"), artist |-> Str1("x"), price |-> 7,
                        created_at |-> [ns |-> 0, loc |-> "Local"],
                        updated_at |-> [ns |-> 0, loc |-> "Local"]])) }

\* The seconds Shutdown is given: context.WithTimeout(shutdownCtx, 10*time.Second).
ShutdownTimeout == 10

\* run after NewServer and the start of the two goroutines: the server
\* listens, the shutdown goroutine waits on <-ctx.Done().  The process was
\* started with DSN set, the database handle is open, and status is the
\* exit status main leaves when run returns nil.
Serving == [phase |-> "serving", elapsed |-> 0, dsn |-> "set", opened |-> TRUE, status |-> 0]

Init ==
    /\ table \in InitTables
    /\ clock = NanosPerMicro
    /\ ticks = 0
    /\ reqs = [c \in Conns |-> IdleReq]
    /\ started = 0
    /\ issued = DOMAIN table
    /\ run = Serving

\* A connection is free once its request is answered.
Free(c) == reqs[c].pc \in {"idle", "done"}

\* The process runs: run has not returned.
Running == run.phase # "returned"

\* The listener is open: Shutdown has not closed it.
Listening == run.phase \in {"serving", "interrupted"}

\* A request arrives on the first free connection.
Accepts(c) ==
    /\ Listening
    /\ Free(c) /\ started < MaxRequests /\ \A d \in Conns : d < c => ~Free(d)

\* POST /albums arrives and runs up to the call of Insert.  newID is
\* uuid.New: the id it returns is one not in use.
CreateAlbum(c, body, id) ==
    /\ Accepts(c)
    /\ LET r0 == createStart(body, id)
       IN  /\ (r0.pc = "insert") => (id \notin issued)
           /\ reqs' = [reqs EXCEPT ![c] = r0]
           /\ issued' = IF r0.pc = "insert" THEN issued \cup {id} ELSE issued
    /\ started' = started + 1
    /\ UNCHANGED <<table, clock, ticks, run>>

\* The INSERT statement runs and the handler responds.
CreateAlbumInsert(c, fail) ==
    /\ Running
    /\ reqs[c].kind = "create" /\ reqs[c].pc = "insert"
    /\ LET res == Insert(table, reqs[c].alb, fail)
       IN  /\ table' = res.table
           /\ reqs' = [reqs EXCEPT ![c] = createInsert(reqs[c], res.err)]
    /\ UNCHANGED <<clock, ticks, started, issued, run>>

\* GET /albums: the whole handler, with its one SELECT statement.
ListAlbums(c, query, order, fail) ==
    /\ Accepts(c)
    /\ LET s == listStart(query)
       IN  reqs' = [reqs EXCEPT ![c] =
                       IF s.r.pc = "done" THEN s.r
                       ELSE listFound(s.r, s.offset, s.limit,
                                      FindAll(table, order, s.offset, s.limit, fail))]
    /\ started' = started + 1
    /\ UNCHANGED <<table, clock, ticks, issued, run>>

\* GET /albums/{album_id}: the whole handler, with its one SELECT statement.
GetAlbum(c, path, fail) ==
    /\ Accepts(c)
    /\ LET r0 == getStart(path)
       IN  reqs' = [reqs EXCEPT ![c] =
                       IF r0.pc = "done" THEN r0
                       ELSE getFound(r0, FindOne(table, r0.albID, fail))]
    /\ started' = started + 1
    /\ UNCHANGED <<table, clock, ticks, issued, run>>

\* PUT /albums/{album_id} arrives and runs up to the return of FindOne.
UpdateAlbum(c, path, body, fail) ==
    /\ Accepts(c)
    /\ LET r0 == updateStart(path, body)
       IN  reqs' = [reqs EXCEPT ![c] =
                       IF r0.pc = "done" THEN r0
                       ELSE afterFindOne(r0, FindOne(table, r0.albID, fail), "stamp")]
    /\ started' = started + 1
    /\ UNCHANGED <<table, clock, ticks, issued, run>>

\* The update handler reads the clock and fills in the album.
UpdateAlbumStamp(c) ==
    /\ Running
    /\ reqs[c].kind = "update" /\ reqs[c].pc = "stamp"
    /\ reqs' = [reqs EXCEPT ![c] = updateStamp(reqs[c])]
    /\ UNCHANGED <<table, clock, ticks, started, issued, run>>

\* The UPDATE statement runs and the handler responds.
UpdateAlbumUpdate(c, fail) ==
    /\ Running
    /\ reqs[c].kind = "update" /\ reqs[c].pc = "update"
    /\ LET res == Update(table, reqs[c].alb, fail)
       IN  /\ table' = res.table
           /\ reqs' = [reqs EXCEPT ![c] = updateDone(reqs[c], res.err)]
    /\ UNCHANGED <<clock, ticks, started, issued, run>>

\* DELETE /albums/{album_id} arrives and runs up to the return of FindOne.
DeleteAlbum(c, path, fail) ==
    /\ Accepts(c)
    /\ LET r0 == deleteStart(path)
       IN  reqs' = [reqs EXCEPT ![c] =
                       IF r0.pc = "done" THEN r0
                       ELSE afterFindOne(r0, FindOne(table, r0.albID, fail), "remove")]
    /\ started' = started + 1
    /\ UNCHANGED <<table, clock, ticks, issued, run>>

\* The DELETE statement runs and the handler responds.
DeleteAlbumRemove(c, fail) ==
    /\ Running
    /\ reqs[c].kind = "delete" /\ reqs[c].pc = "remove"
    /\ LET res == Remove(table, reqs[c].albID, fail)
       IN  /\ table' = res.table
           /\ reqs' = [reqs EXCEPT ![c] = deleteDone(reqs[c], res.err)]
    /\ UNCHANGED <<clock, ticks, started, issued, run>>

\* Time passes.
Tick(d) ==
    /\ ticks < MaxTicks
    /\ clock' = clock + d
    /\ ticks' = ticks + 1
    /\ UNCHANGED <<table, reqs, started, issued, run>>

\* The process receives os.Interrupt: the context of signal.NotifyContext is
\* done.
Interrupt ==
    /\ run.phase = "serving"
    /\ run' = [run EXCEPT !.phase = "interrupted"]
    /\ UNCHANGED <<table, clock, ticks, reqs, started, issued>>

\* The shutdown goroutine wakes, sets the timeout and calls
\* httpServer.Shutdown, which closes the listener first.
ShutdownBegin ==
    /\ run.phase = "interrupted"
    /\ run' = [run EXCEPT !.phase = "shutdown", !.elapsed = 0]
    /\ UNCHANGED <<table, clock, ticks, reqs, started, issued>>

\* A second passes while Shutdown waits for the connections to become idle.
ShutdownWait ==
    /\ run.phase = "shutdown"
    /\ run.elapsed < ShutdownTimeout
    /\ run' = [run EXCEPT !.elapsed = @ + 1]
    /\ UNCHANGED <<table, clock, ticks, reqs, started, issued>>

\* Shutdown under context.Background(): a context that is never done.
shutdownNeverExpires(elapsed) == FALSE

\* The context of Shutdown is done.
shutdownExpired(elapsed) == elapsed >= ShutdownTimeout

\* Shutdown returns, with nil once no request is in flight or with the
\* context's error once the timeout has passed; wg.Wait returns and run
\* returns nil.
ShutdownReturn ==
    /\ run.phase = "shutdown"
    /\ (\A c \in Conns : Free(c)) \/ shutdownExpired(run.elapsed)
    /\ run' = [run EXCEPT !.phase = "returned"]
    /\ UNCHANGED <<table, clock, ticks, reqs, started, issued>>

Next ==
    \/ \E c \in Conns, body \in Bodies, id \in UUIDs : CreateAlbum(c, body, id)
    \/ \E c \in Conns, fail \in BOOLEAN : CreateAlbumInsert(c, fail)
    \/ \E c \in Conns, query \in Queries, order \in TitleOrders(table), fail \in BOOLEAN :
           ListAlbums(c, query, order, fail)
    \/ \E c \in Conns, path \in Paths, fail \in BOOLEAN : GetAlbum(c, path, fail)
    \/ \E c \in Conns, path \in Paths, body \in Bodies, fail \in BOOLEAN :
           UpdateAlbum(c, path, body, fail)
    \/ \E c \in Conns : UpdateAlbumStamp(c)
    \/ \E c \in Conns, fail \in BOOLEAN : UpdateAlbumUpdate(c, fail)
    \/ \E c \in Conns, path \in Paths, fail \in BOOLEAN : DeleteAlbum(c, path, fail)
    \/ \E c \in Conns, fail \in BOOLEAN : DeleteAlbumRemove(c, fail)
    \/ \E d \in TickSteps : Tick(d)

Spec == Init /\ [][Next]_vars

----------------------------------------------------------------------------
(* Listing: GET /albums over the tables earlier requests may have left.    *)

\* Offsets and limits FindAll is examined at.
MaxOffset == 4
MaxLimit == 3

ListIDs == {"a1", "b2", "c3"}

\* The row POST /albums leaves for a title and a price when the clock stands
\* at zero.
ListRow(title, price) ==
    AlbumRow([id |-> NilUUID, title |-> title, artist |-> Str1("x"), price |-> price,
              created_at |-> [ns |-> 0, loc |-> "Local"],
              updated_at |-> [ns |-> 0, loc |-> "Local"]])

ListRows ==
    { ListRow(Str1("a"), 5), ListRow(Str1("B"), 5), ListRow(Str1("b"), 5),
      ListRow(<<"a", "b">>, 5), ListRow(Str1("a"), FloatExponentFrom) }

ListTables == UNION {[ids -> ListRows] : ids \in SUBSET ListIDs}

\* The largest int, in decimal digits (for IntBits = 24).
LargestPage == <<"8", "3", "8", "8", "6", "0", "7">>

ListQueries ==
    {Query(size, number) :
        size \in {<<"1">>, <<"2">>, <<"1", "0">>, <<"5", "0">>},
        number \in {<<"1">>, <<"2">>, <<"3">>, LargestPage}}
    \cup
    { NoQuery,
      [k \in {"page_size"} |-> <<"2">>],
      [k \in {"page_number"} |-> <<"2">>],
      Query(EmptyString, <<"1">>),
      Query(<<"x">>, <<"1">>),
      Query(<<"0">>, <<"1">>),
      Query(<<"-", "1">>, <<"1">>),
      Query(<<"5", "1">>, <<"1">>),
      Query(<<"9", "9", "9", "9", "9", "9", "9", "9">>, <<"1">>),
      Query(<<"2">>, <<"1", "x">>),
      Query(<<"2">>, <<"0">>),
      Query(<<"2">>, <<"-", "3">>),
      Query(<<"+", "2">>, <<"+", "1">>) }

\* The requests before the last one have left the table; the last one lists.
InitList ==
    /\ table \in ListTables
    /\ clock = NanosPerMicro
    /\ ticks = 0
    /\ reqs = [c \in Conns |-> IdleReq]
    /\ started = MaxRequests - 1
    /\ issued = DOMAIN table
    /\ run = Serving

NextList ==
    \E c \in Conns, query \in ListQueries, order \in TitleOrders(table), fail \in BOOLEAN :
        ListAlbums(c, query, order, fail)

SpecList == InitList /\ [][NextList]_vars

----------------------------------------------------------------------------
(* Validation: the requests with a body, over every combination of an      *)
(* empty or non-empty title and artist and a negative, zero or positive    *)
(* price.                                                                  *)

ValidBodies ==
    {Body(title, artist, price) :
        title \in {EmptyString, Str1("a")},
        artist \in {EmptyString, Str1("x")},
        price \in {-1, 0, 1, 5}}
    \cup {[NoBody EXCEPT !.json = TRUE],
          [Body(Str1("a"), EmptyString, 0) EXCEPT !.has = {"title"}]}

InitValid ==
    /\ table \in InitTables
    /\ clock \in {NanosPerMicro, NanosPerMicro + 400}
    /\ ticks = 0
    /\ reqs = [c \in Conns |-> IdleReq]
    /\ started = MaxRequests - 1
    /\ issued = DOMAIN table
    /\ run = Serving

NextValid ==
    \/ \E c \in Conns, body \in ValidBodies, id \in UUIDs : CreateAlbum(c, body, id)
    \/ \E c \in Conns, path \in Paths, body \in ValidBodies : UpdateAlbum(c, path, body, FALSE)

SpecValid == InitValid /\ [][NextValid]_vars

----------------------------------------------------------------------------
(* Shutdown: one request, which may be in flight between its two           *)
(* statements for any length of time, and an interrupt.  The goroutines    *)
(* of run are scheduled and time passes; nothing makes a request finish.   *)

InitRun ==
    /\ table \in InitTables
    /\ clock = NanosPerMicro
    /\ ticks = 0
    /\ reqs = [c \in Conns |-> IdleReq]
    /\ started = MaxRequests - 1
    /\ issued = DOMAIN table
    /\ run = Serving

NextRun ==
    \/ \E c \in Conns, path \in Paths, fail \in BOOLEAN : GetAlbum(c, path, fail)
    \/ \E c \in Conns, path \in Paths, fail \in BOOLEAN : DeleteAlbum(c, path, fail)
    \/ \E c \in Conns, fail \in BOOLEAN : DeleteAlbumRemove(c, fail)
    \/ Interrupt
    \/ ShutdownBegin
    \/ ShutdownWait
    \/ ShutdownReturn

SpecRun ==
    /\ InitRun /\ [][NextRun]_vars
    /\ WF_vars(ShutdownBegin) /\ WF_vars(ShutdownWait) /\ WF_vars(ShutdownReturn)

----------------------------------------------------------------------------
(* Start-up: the process is launched with DSN unset, set to the empty      *)
(* string or set to a data source name, by either main of the repository.  *)

\* The values the environment gives DSN.
DSNs == {"unset", "empty", "set"}

\* The two mains: cmd/albumcatalog/main.go reads DSN with os.Getenv, the
\* later one with runutil.MustGetenv.
Mains == {"Getenv", "MustGetenv"}

\* A main that reads nothing of DSN before it opens the database.
startStatusUnchecked(main, dsn, fail) ==
    IF fail THEN 1 ELSE 0

\* The exit status run's first lines lead to, 0 when they let run go on to
\* the listener: MustGetenv panics on an unset variable (the runtime exits
\* with 2), an empty dsn makes run return an error (main exits with 1), and
\* so does a failure of sql.Open or of goose.Up.
startStatus(main, dsn, fail) ==
    IF main = "MustGetenv" /\ dsn = "unset" THEN 2
    ELSE IF dsn \in {"unset", "empty"} THEN 1
    ELSE IF fail THEN 1
    ELSE 0

\* The process as the operating system launched it.
Starting(dsn) ==
    [phase |-> "starting", elapsed |-> 0, dsn |-> dsn, opened |-> FALSE, status |-> 0]

\* run from its first line to the start of the two goroutines, or to the
\* exit of the process.  sql.Open is reached only past the dsn checks.
Start(main, fail) ==
    /\ run.phase = "starting"
    /\ LET status == startStatus(main, run.dsn, fail)
           checked == run.dsn \in {"unset", "empty"}
       IN  run' = IF status = 0
                  THEN [run EXCEPT !.phase = "serving", !.opened = TRUE]
                  ELSE [run EXCEPT !.phase = "exited", !.status = status,
                                   !.opened = ~checked]
    /\ UNCHANGED <<table, clock, ticks, reqs, started, issued>>

InitStart ==
    /\ table \in InitTables
    /\ clock = NanosPerMicro
    /\ ticks = 0
    /\ reqs = [c \in Conns |-> IdleReq]
    /\ started = MaxRequests - 1
    /\ issued = DOMAIN table
    /\ run \in {Starting(dsn) : dsn \in DSNs}

NextStart ==
    \/ \E main \in Mains, fail \in BOOLEAN : Start(main, fail)
    \/ \E c \in Conns, path \in Paths, fail \in BOOLEAN : GetAlbum(c, path, fail)
    \/ \E c \in Conns, path \in Paths, fail \in BOOLEAN : DeleteAlbum(c, path, fail)
    \/ \E c \in Conns, fail \in BOOLEAN : DeleteAlbumRemove(c, fail)
    \/ Interrupt
    \/ ShutdownBegin
    \/ ShutdownWait
    \/ ShutdownReturn

SpecStart == InitStart /\ [][NextStart]_vars

----------------------------------------------------------------------------
(* Any newID: createAlbumHandler takes newID as a parameter, and here it   *)
(* may return any id, one that is stored or one that another POST in       *)
(* flight holds included.  No statement fails in the driver.               *)

\* POST /albums arrives and runs up to the call of Insert, with a newID that
\* returns id.
CreateAlbumNewID(c, body, id) ==
    /\ Accepts(c)
    /\ LET r0 == createStart(body, id)
       IN  /\ reqs' = [reqs EXCEPT ![c] = r0]
           /\ issued' = IF r0.pc = "insert" THEN issued \cup {id} ELSE issued
    /\ started' = started + 1
    /\ UNCHANGED <<table, clock, ticks, run>>

InitNewID ==
    /\ table \in InitTables
    /\ clock \in {NanosPerMicro, NanosPerMicro + 400}
    /\ ticks = 0
    /\ reqs = [c \in Conns |-> IdleReq]
    /\ started = 0
    /\ issued = DOMAIN table
    /\ run = Serving

NextNewID ==
    \/ \E c \in Conns, body \in Bodies, id \in UUIDs : CreateAlbumNewID(c, body, id)
    \/ \E c \in Conns : CreateAlbumInsert(c, FALSE)

SpecNewID == InitNewID /\ [][NextNewID]_vars

----------------------------------------------------------------------------
(* Paging: list requests, one after the other or at once, over a table     *)
(* that no request changes, with albums of equal and of different titles.  *)
(* No statement fails in the driver.                                       *)

PageRows == {ListRow(Str1("a"), 5), ListRow(Str1("b"), 5)}

PageTables == UNION {[ids -> PageRows] : ids \in SUBSET ListIDs}

PageQueries ==
    {Query(size, number) : size \in {<<"1">>, <<"2">>}, number \in {<<"1">>, <<"2">>, <<"3">>}}

InitPages ==
    /\ table \in PageTables
    /\ clock = NanosPerMicro
    /\ ticks = 0
    /\ reqs = [c \in Conns |-> IdleReq]
    /\ started = 0
    /\ issued = DOMAIN table
    /\ run = Serving

\* GET /albums from a client that pages through the catalogue: the whole
\* handler, with its one SELECT statement.  Each request comes on a
\* connection of its own, so that the pages answered so far stay in view.
ListPage(c, query, order) ==
    /\ Listening
    /\ started < MaxRequests
    /\ reqs[c].pc = "idle" /\ \A d \in Conns : d < c => reqs[d].pc # "idle"
    /\ LET s == listStart(query)
       IN  reqs' = [reqs EXCEPT ![c] =
                       IF s.r.pc = "done" THEN s.r
                       ELSE listFound(s.r, s.offset, s.limit,
                                      FindAll(table, order, s.offset, s.limit, FALSE))]
    /\ started' = started + 1
    /\ UNCHANGED <<table, clock, ticks, issued, run>>

NextPages ==
    \E c \in Conns, query \in PageQueries, order \in TitleOrders(table) :
        ListPage(c, query, order)

SpecPages == InitPages /\ [][NextPages]_vars

----------------------------------------------------------------------------
(* Properties. *)

\* The request on connection c is answered and was of this kind.
Done(c, kind) == reqs[c].kind = kind /\ reqs[c].pc = "done"

\* In this step connection c takes a request of this kind.
Arrives(c, kind) == Accepts(c) /\ started' = started + 1 /\ reqs'[c].kind = kind

\* The instant a time in a response body denotes.
Instant(m) == m.wall - m.offset

\* The album of a response body has the values of a row of the table.
BodyMatchesRow(m, row) ==
    /\ m.title = row.title
    /\ m.artist = row.artist
    /\ m.price = row.price
    /\ Instant(m.created_at) = row.created_at
    /\ Instant(m.updated_at) = row.updated_at

\* C1: when POST /albums has a valid body and its Insert succeeds, the
\* response is 201 and its album equals the row the table then holds under
\* the new id: the id drawn, title, artist and price of the request, and the
\* one clock reading as created_at and updated_at.
C1_CreatedBodyMatchesStored ==
    [][\A c \in Conns :
        (/\ reqs[c].kind = "create" /\ reqs[c].pc = "insert"
         /\ reqs'[c].pc = "done"
         /\ reqs'[c].calls[1].err = Nil)
        => /\ reqs'[c].resp.status = StatusCreated
           /\ reqs'[c].resp.kind = "album"
           /\ reqs'[c].resp.albums[1].id = reqs[c].alb.id
           /\ reqs'[c].resp.albums[1].title = reqs[c].req.title
           /\ reqs'[c].resp.albums[1].artist = reqs[c].req.artist
           /\ reqs'[c].resp.albums[1].price = reqs[c].req.price
           /\ reqs'[c].resp.albums[1].created_at = reqs'[c].resp.albums[1].updated_at
           /\ reqs[c].alb.id \in DOMAIN table'
           /\ BodyMatchesRow(reqs'[c].resp.albums[1], table'[reqs[c].alb.id])]_vars

\* C2: every stored album has a non-empty title, a non-empty artist and a
\* price greater than zero, whatever requests have run and however they
\* interleaved.
C2_StoredAlbumsValid ==
    \A id \in DOMAIN table :
        /\ table[id].title # EmptyString
        /\ table[id].artist # EmptyString
        /\ table[id].price > 0

\* A PUT has succeeded and the table holds a second album beside it.
C2_Witness ==
    \E c \in Conns :
        /\ Done(c, "update") /\ reqs[c].resp.status = StatusOK
        /\ reqs[c].albID \in DOMAIN table
        /\ Cardinality(DOMAIN table) = 2

\* C3: a PUT with a valid body for an id that no stored album has, whether at
\* its FindOne or, after a concurrent DELETE, at its UPDATE statement, is
\* answered 404 "album not found" and leaves the table as it was (when the
\* statement itself does not fail in the driver).
C3_UpdateMissingIsNotFound ==
    [][\A c \in Conns :
        /\ (/\ Arrives(c, "update")
            /\ Len(reqs'[c].calls) = 1
            /\ reqs'[c].albID \notin DOMAIN table
            /\ reqs'[c].calls[1].err # ErrDriver)
           => /\ reqs'[c].pc = "done"
              /\ reqs'[c].resp = [status |-> StatusNotFound, kind |-> "message",
                                  message |-> "album not found",
                                  problems |-> NoProblems, albums |-> <<>>]
              /\ table' = table
        /\ (/\ reqs[c].kind = "update" /\ reqs[c].pc = "update"
            /\ reqs'[c].pc = "done"
            /\ reqs[c].alb.id \notin DOMAIN table
            /\ reqs'[c].calls[2].err # ErrDriver)
           => /\ reqs'[c].resp = [status |-> StatusNotFound, kind |-> "message",
                                  message |-> "album not found",
                                  problems |-> NoProblems, albums |-> <<>>]
              /\ table' = table]_vars

\* A PUT found its album, lost it to a DELETE and was answered 404 by its
\* UPDATE statement.
C3_Witness ==
    \E c \in Conns :
        /\ Done(c, "update")
        /\ Len(reqs[c].calls) = 2
        /\ reqs[c].calls[1].err = Nil
        /\ reqs[c].calls[2].err = ErrAlbumNotFound
        /\ reqs[c].resp.status = StatusNotFound
        /\ reqs[c].albID \notin DOMAIN table

\* C4: FindOne (when the query does not fail) returns ErrAlbumNotFound
\* exactly when no stored album has the id, and then the zero Album; and
\* GET /albums/{id} for a well-formed id that no stored album has is answered
\* 404 with the body {"message":"album not found"}.
C4_FindOneNotFound ==
    /\ [](\A id \in UUIDs :
            LET got == FindOne(table, id, FALSE)
            IN  /\ (got.err = ErrAlbumNotFound) <=> (id \notin DOMAIN table)
                /\ (got.err = ErrAlbumNotFound) => (got.alb = ZeroAlbum))
    /\ [][\A c \in Conns :
            (/\ Arrives(c, "get")
             /\ ParseUUID(reqs'[c].path).err = Nil
             /\ ParseUUID(reqs'[c].path).id \notin DOMAIN table
             /\ ~(Len(reqs'[c].calls) = 1 /\ reqs'[c].calls[1].err = ErrDriver))
            => /\ reqs'[c].pc = "done"
               /\ reqs'[c].resp = [status |-> StatusNotFound, kind |-> "message",
                                   message |-> "album not found",
                                   problems |-> NoProblems, albums |-> <<>>]]_vars

\* A GET for an id that is not stored, beside an album that is, was answered 404.
C4_Witness ==
    \E c \in Conns :
        /\ Done(c, "get")
        /\ reqs[c].resp.status = StatusNotFound
        /\ reqs[c].albID \notin DOMAIN table
        /\ DOMAIN table # {}

\* C5: after Insert(a) succeeds, FindOne(a.ID) returns an album whose id,
\* title, artist, price, created_at and updated_at equal those of a, the
\* timestamps compared as instants.
C5_InsertFindOneRoundTrip ==
    [][\A c \in Conns :
        (/\ reqs[c].kind = "create" /\ reqs[c].pc = "insert"
         /\ reqs'[c].pc = "done"
         /\ reqs'[c].calls[1].err = Nil)
        => LET a   == reqs[c].alb
               got == FindOne(table', a.id, FALSE)
           IN  /\ got.err = Nil
               /\ got.alb.id = a.id
               /\ got.alb.title = a.title
               /\ got.alb.artist = a.artist
               /\ got.alb.price = a.price
               /\ got.alb.created_at.ns = a.created_at.ns
               /\ got.alb.updated_at.ns = a.updated_at.ns]_vars

\* The query carries a page_size that is a decimal integer in
\* 1..maxAlbumsPageSize and a page_number that is a decimal integer of at
\* least 1.
Accepted(query) ==
    /\ QHas(query, "page_size") /\ QHas(query, "page_number")
    /\ Atoi(QGet(query, "page_size")).err = Nil
    /\ Atoi(QGet(query, "page_number")).err = Nil
    /\ Atoi(QGet(query, "page_size")).n \in 1..maxAlbumsPageSize
    /\ Atoi(QGet(query, "page_number")).n >= 1

C7_PageParametersChecked ==
    \A c \in Conns :
        Done(c, "list")
        => IF Accepted(reqs[c].query)
           THEN /\ reqs[c].resp.status # StatusBadRequest
                /\ Len(reqs[c].calls) = 1
           ELSE /\ reqs[c].resp.status = StatusBadRequest
                /\ reqs[c].calls = <<>>

\* A request whose page_number parsed but was below 1, with a page_size in
\* range, was answered 400.
C7_Witness ==
    \E c \in Conns :
        /\ Done(c, "list")
        /\ QHas(reqs[c].query, "page_size") /\ QHas(reqs[c].query, "page_number")
        /\ Atoi(QGet(reqs[c].query, "page_size")).err = Nil
        /\ Atoi(QGet(reqs[c].query, "page_size")).n \in 1..maxAlbumsPageSize
        /\ Atoi(QGet(reqs[c].query, "page_number")).err = Nil
        /\ Atoi(QGet(reqs[c].query, "page_number")).n < 1
        /\ reqs[c].resp.status = StatusBadRequest
        /\ reqs[c].calls = <<>>

\* C8: when FindAll returns ErrAlbumNotFound, GET /albums answers 200 with an
\* empty JSON list, never 404 or 500.
C8_EmptyPageIsOK ==
    \A c \in Conns :
        (/\ Done(c, "list")
         /\ Len(reqs[c].calls) = 1
         /\ reqs[c].calls[1].err = ErrAlbumNotFound)
        => /\ reqs[c].resp.status = StatusOK
           /\ reqs[c].resp.kind = "array"
           /\ reqs[c].resp.albums = <<>>

\* A page past the last album of a non-empty table was answered.
C8_Witness ==
    \E c \in Conns :
        /\ Done(c, "list")
        /\ Len(reqs[c].calls) = 1
        /\ reqs[c].calls[1].err = ErrAlbumNotFound
        /\ reqs[c].calls[1].offset > 0
        /\ DOMAIN table # {}
        /\ reqs[c].resp.status = StatusOK

\* A title with every letter in lower case.
LowerTitle(s) == [i \in 1..Len(s) |-> ToLower(s[i])]

\* The orders of the stored ids that are sorted by lower-cased title.
SortedByLowerTitle(tbl) ==
    {p \in Orderings(DOMAIN tbl) :
        \A i, j \in 1..Len(p) :
            i < j => ~BytesLess(LowerTitle(tbl[p[j]].title),
                                LowerTitle(tbl[p[i]].title))}

\* How many of n sorted albums lie at positions offset .. offset+limit-1,
\* counted from zero.
InWindow(n, offset, limit) ==
    IF offset >= n \/ limit <= 0 THEN 0
    ELSE IF n - offset < limit THEN n - offset ELSE limit

\* C9: for a non-empty window, FindAll returns exactly the albums at
\* positions offset .. offset+limit-1 of the stored albums sorted by
\* lower-cased title, in that order.
C9_FindAllWindow ==
    \A order \in TitleOrders(table), offset \in 0..MaxOffset, limit \in 1..MaxLimit :
        LET got == FindAll(table, order, offset, limit, FALSE)
            n   == InWindow(Cardinality(DOMAIN table), offset, limit)
        IN  (n > 0)
            => /\ got.err = Nil
               /\ \E p \in SortedByLowerTitle(table) :
                    /\ Len(got.albs.items) = n
                    /\ \A i \in 1..n :
                        /\ got.albs.items[i].id = p[offset + i]
                        /\ AlbumRow(got.albs.items[i]) = table[p[offset + i]]

\* The same for the windows none of whose rows fails to scan, and for the
\* response of GET /albums.
FindAllWindowScanned ==
    /\ \A order \in TitleOrders(table), offset \in 0..MaxOffset, limit \in 1..MaxLimit :
        LET got == FindAll(table, order, offset, limit, FALSE)
            n   == InWindow(Cardinality(DOMAIN table), offset, limit)
        IN  (n > 0 /\ got.err # ErrScan)
            => /\ got.err = Nil
               /\ \E p \in SortedByLowerTitle(table) :
                    got.albs.items = [i \in 1..n |-> FindOne(table, p[offset + i], FALSE).alb]
    /\ \A c \in Conns :
        (Done(c, "list") /\ Len(reqs[c].calls) = 1 /\ reqs[c].calls[1].err = Nil)
        => LET offset == reqs[c].calls[1].offset
               n      == InWindow(Cardinality(DOMAIN table), offset, reqs[c].calls[1].limit)
           IN  /\ n > 0
               /\ \E p \in SortedByLowerTitle(table) :
                    /\ Len(reqs[c].resp.albums) = n
                    /\ \A i \in 1..n :
                        /\ reqs[c].resp.albums[i].id = p[offset + i]
                        /\ BodyMatchesRow(reqs[c].resp.albums[i], table[p[offset + i]])

\* A second page was answered from a table holding the titles "a" and "B",
\* which byte order and lower-cased order place differently.
C9_Witness ==
    \E c \in Conns :
        /\ Done(c, "list")
        /\ Len(reqs[c].calls) = 1
        /\ reqs[c].calls[1].err = Nil
        /\ reqs[c].calls[1].offset > 0
        /\ Len(reqs[c].resp.albums) >= 1
        /\ \E i, j \in DOMAIN table :
            table[i].title = <<"a">> /\ table[j].title = <<"B">>

\* C10: FindAll returns ErrAlbumNotFound, and then no albums, exactly when
\* the window holds no stored album; otherwise it returns a non-empty list
\* and a nil error.
C10_FindAllNotFound ==
    \A order \in TitleOrders(table), offset \in 0..MaxOffset, limit \in 0..MaxLimit :
        LET got == FindAll(table, order, offset, limit, FALSE)
            n   == InWindow(Cardinality(DOMAIN table), offset, limit)
        IN  /\ (got.err = ErrAlbumNotFound) <=> (n = 0)
            /\ (got.err = ErrAlbumNotFound) => (got.albs = NilSlice)
            /\ (n > 0) => (got.err = Nil /\ Len(got.albs.items) > 0)

\* The same with a row that fails to scan allowed for.
FindAllNotFoundScanned ==
    \A order \in TitleOrders(table), offset \in 0..MaxOffset, limit \in 0..MaxLimit :
        LET got == FindAll(table, order, offset, limit, FALSE)
            n   == InWindow(Cardinality(DOMAIN table), offset, limit)
        IN  /\ (got.err = ErrAlbumNotFound) <=> (n = 0)
            /\ (got.err = ErrAlbumNotFound) => (got.albs = NilSlice)
            /\ (n > 0) => (got.err \in {Nil, ErrScan})
            /\ (got.err = Nil) => (Len(got.albs.items) = n /\ n > 0)

\* Both cases were answered: a page of an empty table with ErrAlbumNotFound,
\* seen as the request's call, and the table is empty.
C10_Witness ==
    \E c \in Conns :
        /\ Done(c, "list")
        /\ Len(reqs[c].calls) = 1
        /\ reqs[c].calls[1].err = ErrAlbumNotFound
        /\ table = EmptyTable

\* In this step the request on connection c gets the answer of its second
\* statement, the UPDATE or the DELETE, which did not fail in the driver.
Completes(c, kind, pc) ==
    /\ reqs[c].kind = kind /\ reqs[c].pc = pc
    /\ reqs'[c].pc = "done"
    /\ reqs'[c].calls[2].err # ErrDriver

\* Every row but that of id is the same before and after the step.
OthersUnchanged(id) ==
    /\ DOMAIN table' \ {id} = DOMAIN table \ {id}
    /\ \A o \in DOMAIN table \ {id} : table'[o] = table[o]

\* C11: Update(alb) on a stored id returns nil and leaves that record equal
\* to alb in title, artist, price, created_at and updated_at, every other
\* record unchanged; on an id not stored it returns ErrAlbumNotFound and
\* leaves the store unchanged.
C11_UpdateWritesAlbum ==
    [][\A c \in Conns :
        Completes(c, "update", "update")
        => LET alb == reqs[c].alb
               err == reqs'[c].calls[2].err
           IN  IF alb.id \in DOMAIN table
               THEN /\ err = Nil
                    /\ alb.id \in DOMAIN table'
                    /\ table'[alb.id].title = alb.title
                    /\ table'[alb.id].artist = alb.artist
                    /\ table'[alb.id].price = alb.price
                    /\ table'[alb.id].created_at = alb.created_at.ns
                    /\ table'[alb.id].updated_at = alb.updated_at.ns
                    /\ OthersUnchanged(alb.id)
               ELSE /\ err = ErrAlbumNotFound
                    /\ table' = table]_vars

\* The same with the two times as the timestamp columns keep them, rounded
\* to the microsecond.
UpdateWritesRoundedAlbum ==
    [][\A c \in Conns :
        Completes(c, "update", "update")
        => LET alb == reqs[c].alb
               err == reqs'[c].calls[2].err
           IN  IF alb.id \in DOMAIN table
               THEN /\ err = Nil
                    /\ alb.id \in DOMAIN table'
                    /\ table'[alb.id] =
                         [title |-> alb.title, artist |-> alb.artist, price |-> alb.price,
                          created_at |-> RoundMicros(alb.created_at.ns),
                          updated_at |-> RoundMicros(alb.updated_at.ns)]
                    /\ OthersUnchanged(alb.id)
               ELSE /\ err = ErrAlbumNotFound
                    /\ table' = table]_vars

\* An album was updated while the clock stood between two microseconds and
\* another album was stored.
C11_Witness ==
    \E c \in Conns :
        /\ Done(c, "update")
        /\ Len(reqs[c].calls) = 2
        /\ reqs[c].calls[2].err = Nil
        /\ reqs[c].alb.updated_at.ns % NanosPerMicro # 0
        /\ reqs[c].albID \in DOMAIN table

\* C12: Remove(id) on a stored id returns nil and leaves no album of that
\* id, every other record unchanged; on an id not stored it returns
\* ErrAlbumNotFound and leaves the store unchanged.
C12_RemoveDeletesAlbum ==
    /\ [](\A id \in UUIDs :
            LET res == Remove(table, id, FALSE)
            IN  IF id \in DOMAIN table
                THEN /\ res.err = Nil
                     /\ DOMAIN res.table = DOMAIN table \ {id}
                     /\ \A o \in DOMAIN res.table : res.table[o] = table[o]
                ELSE /\ res.err = ErrAlbumNotFound
                     /\ res.table = table)
    /\ [][\A c \in Conns :
            Completes(c, "delete", "remove")
            => LET id  == reqs[c].albID
                   err == reqs'[c].calls[2].err
               IN  IF id \in DOMAIN table
                   THEN /\ err = Nil
                        /\ id \notin DOMAIN table'
                        /\ OthersUnchanged(id)
                   ELSE /\ err = ErrAlbumNotFound
                        /\ table' = table]_vars

\* A DELETE removed its album and left the other stored album in the table.
C12_Witness ==
    \E c \in Conns :
        /\ Done(c, "delete")
        /\ Len(reqs[c].calls) = 2
        /\ reqs[c].calls[2].err = Nil
        /\ reqs[c].albID \notin DOMAIN table
        /\ DOMAIN table # {}

\* The fields of a request that are not valid.
InvalidFields(req) ==
    {k \in {"title", "artist", "price"} :
        \/ k = "title" /\ req.title = EmptyString
        \/ k = "artist" /\ req.artist = EmptyString
        \/ k = "price" /\ req.price <= 0}

\* The request on connection c carried a body that was decoded and validated.
Validated(c) ==
    /\ reqs[c].kind \in {"create", "update"}
    /\ reqs[c].body.json
    /\ reqs[c].kind = "update" => reqs[c].albID # NilUUID

\* C13: the validator's result depends on title, artist and price alone: it
\* has the key "title" iff the title is empty, "artist" iff the artist is
\* empty, "price" iff the price is not above zero, and no other key; it is
\* empty exactly for a valid request, and the handlers answer accordingly.
C13_ValidatorKeys ==
    \A c \in Conns :
        Validated(c)
        => /\ DOMAIN Valid(reqs[c].req) = InvalidFields(reqs[c].req)
           /\ Valid(reqs[c].req) =
                Valid([title |-> reqs[c].req.title, artist |-> reqs[c].req.artist,
                       price |-> reqs[c].req.price])
           /\ IF InvalidFields(reqs[c].req) = {}
              THEN reqs[c].resp.kind # "problems" /\ reqs[c].resp.status # StatusBadRequest
              ELSE /\ reqs[c].pc = "done"
                   /\ reqs[c].resp.status = StatusBadRequest
                   /\ reqs[c].resp.kind = "problems"
                   /\ DOMAIN reqs[c].resp.problems = InvalidFields(reqs[c].req)

\* A request whose only fault was a negative price was answered with the
\* one problem "price".
C13_Witness ==
    \E c \in Conns :
        /\ Validated(c)
        /\ reqs[c].req.price < 0
        /\ reqs[c].resp.kind = "problems"
        /\ DOMAIN reqs[c].resp.problems = {"price"}

\* In this step the PUT on connection c is answered 200.
PutSucceeds(c) ==
    /\ reqs[c].kind = "update" /\ reqs[c].pc = "update"
    /\ reqs'[c].pc = "done"
    /\ reqs'[c].resp.status = StatusOK

\* C14: a PUT answered 200 changes only the title, artist, price and
\* updated_at of the album of its id: the id and created_at are as before,
\* every other stored album is unchanged, and the response body equals the
\* record the update stored.
C14_PutChangesOnlyItsAlbum ==
    [][\A c \in Conns :
        PutSucceeds(c)
        => LET id == reqs[c].albID
           IN  /\ id \in DOMAIN table /\ id \in DOMAIN table'
               /\ table'[id].created_at = table[id].created_at
               /\ OthersUnchanged(id)
               /\ reqs'[c].resp.kind = "album"
               /\ reqs'[c].resp.albums[1].id = id
               /\ BodyMatchesRow(reqs'[c].resp.albums[1], table'[id])]_vars

\* The frame alone: id and created_at kept, title, artist and price those of
\* the request, the other albums untouched.
PutKeepsIdAndCreatedAt ==
    [][\A c \in Conns :
        PutSucceeds(c)
        => LET id == reqs[c].albID
           IN  /\ id \in DOMAIN table /\ id \in DOMAIN table'
               /\ table'[id].created_at = table[id].created_at
               /\ table'[id].title = reqs[c].req.title
               /\ table'[id].artist = reqs[c].req.artist
               /\ table'[id].price = reqs[c].req.price
               /\ OthersUnchanged(id)
               /\ reqs'[c].resp.albums[1].id = id
               /\ Instant(reqs'[c].resp.albums[1].created_at) = table[id].created_at]_vars

\* A PUT was answered 200 with an updated_at between two microseconds while
\* a second album was stored.
C14_Witness ==
    \E c \in Conns :
        /\ Done(c, "update")
        /\ reqs[c].resp.status = StatusOK
        /\ Instant(reqs[c].resp.albums[1].updated_at) % NanosPerMicro # 0
        /\ Cardinality(DOMAIN table) = 2

\* A DELETE of this id has been answered 200.
Deleted(id) ==
    \E c \in Conns :
        Done(c, "delete") /\ reqs[c].resp.status = StatusOK /\ reqs[c].albID = id

\* The id was in use and is stored no more, nor is its INSERT still to run.
Gone(id) ==
    /\ id \in issued
    /\ id \notin DOMAIN table
    /\ ~\E c \in Conns :
          reqs[c].kind = "create" /\ reqs[c].pc = "insert" /\ reqs[c].alb.id = id

\* The 404 of the get, update and delete handlers.
IsNotFound(resp) ==
    resp = [status |-> StatusNotFound, kind |-> "message", message |-> "album not found",
            problems |-> NoProblems, albums |-> <<>>]

\* C15: once a DELETE of an id has been answered 200 no stored album has
\* that id in any later state, and every GET, PUT or DELETE that reaches the
\* storage for that id afterwards, a PUT or DELETE in flight included, is
\* answered 404 (when its statement does not fail in the driver).
C15_DeletedOutright ==
    /\ [](\A id \in UUIDs : Deleted(id) => Gone(id))
    /\ [][\A id \in UUIDs : Gone(id) => Gone(id)']_vars
    /\ [][\A id \in UUIDs, c \in Conns :
            /\ (/\ Gone(id)
                /\ \E kind \in {"get", "update", "delete"} : Arrives(c, kind)
                /\ reqs'[c].albID = id
                /\ Len(reqs'[c].calls) = 1
                /\ reqs'[c].calls[1].err # ErrDriver)
               => (reqs'[c].pc = "done" /\ IsNotFound(reqs'[c].resp))
            /\ (/\ Gone(id)
                /\ reqs[c].albID = id
                /\ \/ Completes(c, "update", "update")
                   \/ Completes(c, "delete", "remove"))
               => IsNotFound(reqs'[c].resp)]_vars

\* A PUT that had found its album was answered 404 after a DELETE of the
\* same id had been answered 200.
C15_Witness ==
    \E c, d \in Conns :
        /\ Done(c, "delete") /\ reqs[c].resp.status = StatusOK
        /\ Done(d, "update") /\ reqs[d].albID = reqs[c].albID
        /\ Len(reqs[d].calls) = 2
        /\ reqs[d].calls[1].err = Nil
        /\ reqs[d].resp.status = StatusNotFound

\* The last storage call of a request that made one.
LastCall(r) == r.calls[Len(r.calls)]

\* The request could not be parsed or its page parameters were refused.
Unparsable(r) ==
    \/ r.kind \in {"get", "update", "delete"} /\ ParseUUID(r.path).err # Nil
    \/ r.kind \in {"create", "update"} /\ ~r.body.json
    \/ r.kind = "list" /\ ~Accepted(r.query)

\* The request was parsed and its body failed validation.
Invalid(r) ==
    /\ r.kind \in {"create", "update"}
    /\ ~Unparsable(r)
    /\ InvalidFields(r.req) # {}

\* C16: every response falls in the error taxonomy: unparsable input or a
\* refused page parameter is 400; a body failing validation is 400 with the
\* map of problems; ErrAlbumNotFound on get, update or delete is 404; every
\* other storage error is 500 with the message "internal error", which is
\* not the text of the error; and no response has 400, 404 or 500 otherwise.
C16_ErrorTaxonomy ==
    \A c \in Conns :
        (reqs[c].pc = "done")
        => LET r == reqs[c]
           IN  /\ r.resp.status \in {StatusOK, StatusCreated, StatusBadRequest,
                                     StatusNotFound, StatusInternalServerError}
               /\ Unparsable(r)
                  => (r.resp.status = StatusBadRequest /\ r.resp.kind = "message"
                      /\ r.calls = <<>>)
               /\ Invalid(r)
                  => (/\ r.resp.status = StatusBadRequest /\ r.resp.kind = "problems"
                      /\ DOMAIN r.resp.problems = InvalidFields(r.req)
                      /\ r.calls = <<>>)
               /\ (r.resp.status = StatusBadRequest) => (Unparsable(r) \/ Invalid(r))
               /\ (r.resp.status = StatusNotFound)
                  <=> (/\ r.calls # <<>>
                       /\ LastCall(r).err = ErrAlbumNotFound
                       /\ r.kind \in {"get", "update", "delete"})
               /\ (r.resp.status = StatusInternalServerError)
                  <=> (r.calls # <<>> /\ LastCall(r).err \notin {Nil, ErrAlbumNotFound})
               /\ (r.resp.status = StatusInternalServerError)
                  => (/\ r.resp.kind = "message"
                      /\ r.resp.message = "internal error"
                      /\ r.resp.message # LastCall(r).err)

\* A DELETE whose statement failed in the driver was answered 500.
C16_Witness ==
    \E c \in Conns :
        /\ Done(c, "delete")
        /\ Len(reqs[c].calls) = 2
        /\ reqs[c].calls[2].err = ErrDriver
        /\ reqs[c].resp.status = StatusInternalServerError

\* C17: the logger is invoked for a request if and only if the request is
\* answered 500: a request in flight or answered 2xx, 400 or 404 has written
\* no log record, and one answered 500 has written exactly one.
C17_LogsOnlyOn500 ==
    \A c \in Conns :
        IF reqs[c].pc = "done" /\ reqs[c].resp.status = StatusInternalServerError
        THEN Len(reqs[c].logs) = 1
        ELSE reqs[c].logs = <<>>

\* One request was answered 500 with its log record and another 404
\* without one.
C17_Witness ==
    \E c, d \in Conns :
        /\ reqs[c].pc = "done" /\ reqs[c].resp.status = StatusInternalServerError
        /\ Len(reqs[c].logs) = 1
        /\ reqs[d].pc = "done" /\ reqs[d].resp.status = StatusNotFound
        /\ reqs[d].logs = <<>>

\* A 400 response with this message.
IsBadRequest(resp, msg) ==
    resp.status = StatusBadRequest /\ resp.kind \in {"message", "problems"} /\ resp.message = msg

\* C18: a POST, PUT, GET-one or DELETE that fails parsing or validation is
\* answered 400 with no storage call made and the store unchanged; a PUT has
\* its id checked before its body and its body before the lookup.
C18_RejectedBeforeStorage ==
    [][\A c \in Conns :
        (/\ \E kind \in {"create", "update", "get", "delete"} : Arrives(c, kind)
         /\ Unparsable(reqs'[c]) \/ Invalid(reqs'[c]))
        => LET r == reqs'[c]
           IN  /\ r.pc = "done"
               /\ r.calls = <<>>
               /\ table' = table
               /\ IF r.kind # "create" /\ ParseUUID(r.path).err # Nil
                  THEN IsBadRequest(r.resp, "malformed album id")
                  ELSE IF ~r.body.json
                  THEN IsBadRequest(r.resp, "malformed request body")
                  ELSE /\ IsBadRequest(r.resp, "invalid request body")
                       /\ DOMAIN r.resp.problems = InvalidFields(r.req)]_vars

\* A PUT whose id and body were both malformed was refused for its id.
C18_Witness ==
    \E c \in Conns :
        /\ Done(c, "update")
        /\ ParseUUID(reqs[c].path).err # Nil
        /\ ~reqs[c].body.json
        /\ IsBadRequest(reqs[c].resp, "malformed album id")
        /\ reqs[c].calls = <<>>

\* C19 as the specification words it: each handler makes at most one
\* storage call per request.
C19_AtMostOneStorageCall ==
    \A c \in Conns : Len(reqs[c].calls) <= 1

\* The storage operations in the order the request called them.
CallOps(r) == [i \in 1..Len(r.calls) |-> r.calls[i].op]

\* C19: the create, list and get handlers make at most one storage call per
\* request; the update and delete handlers make at most two, FindOne and
\* then, only when FindOne returned an album, Update or Remove.
C19_StorageCallsPerRequest ==
    \A c \in Conns :
        LET r == reqs[c]
        IN  /\ r.kind = "idle" => r.calls = <<>>
            /\ r.kind = "create" => CallOps(r) \in {<<>>, <<"Insert">>}
            /\ r.kind = "list" => CallOps(r) \in {<<>>, <<"FindAll">>}
            /\ r.kind = "get" => CallOps(r) \in {<<>>, <<"FindOne">>}
            /\ r.kind = "update"
               => CallOps(r) \in {<<>>, <<"FindOne">>, <<"FindOne", "Update">>}
            /\ r.kind = "delete"
               => CallOps(r) \in {<<>>, <<"FindOne">>, <<"FindOne", "Remove">>}
            /\ Len(r.calls) = 2 => r.calls[1].err = Nil

\* A DELETE was answered after its two storage calls, FindOne and Remove.
C19_Witness ==
    \E c \in Conns :
        /\ Done(c, "delete")
        /\ CallOps(reqs[c]) = <<"FindOne", "Remove">>
        /\ reqs[c].resp.status = StatusOK

\* A request is being served.
InFlight == \E c \in Conns : ~Free(c)

\* C20: after the interrupt the server stops accepting (the listener is
\* closed and no request arrives any more), requests in flight get a grace
\* period of at most ShutdownTimeout seconds (run does not return earlier
\* while one is in flight), and run eventually returns whether or not they
\* have finished.
C20_CooperativeShutdown ==
    /\ (run.phase = "interrupted") ~> ~Listening
    /\ (run.phase = "interrupted") ~> (run.phase = "returned")
    /\ [](run.elapsed <= ShutdownTimeout)
    /\ [][~Listening => (~Listening' /\ started' = started
                         /\ \A c \in Conns : Free(c) => reqs'[c] = reqs[c])]_vars
    /\ [][(run.phase # "returned" /\ run'.phase = "returned" /\ InFlight)
            => (run.phase = "shutdown" /\ run.elapsed = ShutdownTimeout)]_vars

\* run has returned after the full grace period with a request still in
\* flight between its two statements.
C20_Witness ==
    /\ run.phase = "returned"
    /\ run.elapsed = ShutdownTimeout
    /\ \E c \in Conns : reqs[c].kind = "delete" /\ reqs[c].pc = "remove"

\* C21: a process launched with DSN unset or empty does not start: it never
\* opens the database, never listens and never takes a request, and when
\* run's first lines are over it has exited with a status other than zero.
C21_NoStartWithoutDSN ==
    /\ [](run.dsn \in {"unset", "empty"}
            => /\ run.phase \in {"starting", "exited"}
               /\ ~run.opened
               /\ ~Listening
               /\ \A c \in Conns : reqs[c] = IdleReq
               /\ run.phase = "exited" => run.status # 0)
    /\ [][(run.phase = "starting" /\ run.dsn \in {"unset", "empty"} /\ run' # run)
            => (run'.phase = "exited" /\ run'.status # 0)]_vars

C21_Witness ==
    /\ run.phase = "exited"
    /\ run.dsn = "empty"
    /\ run.status = 1
    /\ ~run.opened

\* The parsed page_size of a list request whose two parameters parsed.
ParsedPageSize(c) == Atoi(QGet(reqs[c].query, "page_size")).n

\* The list request on c is over and both its page parameters parsed.
ListParsed(c) == Done(c, "list") /\ pageParseProblem(reqs[c].query) = ""

\* C22: GET /albums with a page_size below 1 is answered 400 with the message
\* "page number is less than 1", and with a page_size above 50 it is answered
\* 400 with the message "page number is greater than 50", the messages of the
\* examples TooSmallPageSize and TooBigPageSize of the OpenAPI document.
C22_PageSizeMessagesAsDocumented ==
    \A c \in Conns :
        ListParsed(c)
        => /\ ParsedPageSize(c) < 1
              => reqs[c].resp = encodeMessage(StatusBadRequest, "page number is less than 1")
           /\ ParsedPageSize(c) > maxAlbumsPageSize
              => reqs[c].resp = encodeMessage(StatusBadRequest, "page number is greater than 50")

\* What the handler does answer: 400 with messages that name the page size.
C22_PageSizeMessages ==
    \A c \in Conns :
        ListParsed(c)
        => /\ ParsedPageSize(c) < 1
              => reqs[c].resp = encodeMessage(StatusBadRequest, "page size is less than 1")
           /\ ParsedPageSize(c) > maxAlbumsPageSize
              => reqs[c].resp = encodeMessage(StatusBadRequest, "page size is greater than 50")

\* page_size=51 was answered 400 "page size is greater than 50".
C22_Witness ==
    \E c \in Conns :
        /\ ListParsed(c)
        /\ ParsedPageSize(c) = maxAlbumsPageSize + 1
        /\ reqs[c].resp = encodeMessage(StatusBadRequest, "page size is greater than 50")

\* In this step the DELETE on c has its Remove run and is answered 200.
DeleteSucceeds(c) ==
    /\ reqs[c].kind = "delete" /\ reqs[c].pc = "remove"
    /\ reqs'[c].pc = "done"
    /\ reqs'[c].resp.status = StatusOK

\* C23: the body of a 200 answer to DELETE /albums/{id} is the removed album:
\* it equals the record as the table held it when Remove deleted it, also
\* when a PUT on the same id completed between the handler's FindOne and its
\* Remove.
C23_DeleteBodyIsRemovedRecord ==
    [][\A c \in Conns :
        DeleteSucceeds(c)
        => /\ reqs[c].albID \in DOMAIN table
           /\ reqs[c].albID \notin DOMAIN table'
           /\ reqs'[c].resp.kind = "album"
           /\ reqs'[c].resp.albums[1].id = reqs[c].albID
           /\ BodyMatchesRow(reqs'[c].resp.albums[1], table[reqs[c].albID])]_vars

\* A DELETE and a PUT of one id were both answered 200, and the body of the
\* DELETE has another title than the PUT wrote: the PUT's Update ran after
\* the DELETE's FindOne and before its Remove.
C23_Witness ==
    \E c, d \in Conns :
        /\ Done(c, "delete") /\ reqs[c].resp.status = StatusOK
        /\ Done(d, "update") /\ reqs[d].resp.status = StatusOK
        /\ reqs[c].albID = reqs[d].albID
        /\ reqs[c].resp.albums[1].title # reqs[d].resp.albums[1].title

\* The DELETE on c is over: it found its album and its Remove ran, and no
\* storage call of it failed.
DeleteRanRemove(c) ==
    /\ Done(c, "delete")
    /\ Len(reqs[c].calls) = 2
    /\ reqs[c].calls[1].err = Nil
    /\ reqs[c].calls[2].err \in {Nil, ErrAlbumNotFound}

\* C24: when the DELETEs of one stored id run concurrently (each found the
\* album before any removed it) and no storage call fails, exactly one is
\* answered 200 and every other 404, none 500, and the album is removed
\* once: one Remove returned nil and the id is stored no more.
C24_OneDeleteWins ==
    \A c, d \in Conns :
        (c # d /\ DeleteRanRemove(c) /\ DeleteRanRemove(d) /\ reqs[c].albID = reqs[d].albID)
        => /\ {reqs[c].resp.status, reqs[d].resp.status} = {StatusOK, StatusNotFound}
           /\ \A e \in {c, d} : reqs[e].resp.status = StatusNotFound => IsNotFound(reqs[e].resp)
           /\ {reqs[c].calls[2].err, reqs[d].calls[2].err} = {Nil, ErrAlbumNotFound}
           /\ reqs[c].albID \notin DOMAIN table

\* Two DELETEs of a1 both found it; the first connection's Remove came second
\* and was answered 404.
C24_Witness ==
    /\ DeleteRanRemove(1) /\ DeleteRanRemove(2)
    /\ reqs[1].albID = "a1" /\ reqs[2].albID = "a1"
    /\ reqs[1].resp.status = StatusNotFound
    /\ reqs[2].resp.status = StatusOK

\* In this step the PUT on c has its Update statement run.
PutRunsUpdate(c) ==
    /\ reqs[c].kind = "update" /\ reqs[c].pc = "update"
    /\ reqs'[c].pc = "done"

\* C25: a PUT never creates or re-creates a record.  Whatever ran between its
\* FindOne and its Update, the ids stored after the Update statement are
\* among those stored when it ran, and the PUT is answered 200 only if its
\* album was stored when the Update statement ran.
C25_PutNeverCreates ==
    [][\A c \in Conns :
        PutRunsUpdate(c)
        => /\ DOMAIN table' \subseteq DOMAIN table
           /\ reqs'[c].resp.status = StatusOK => reqs[c].albID \in DOMAIN table
           /\ reqs[c].albID \notin DOMAIN table
              => /\ table' = table
                 /\ reqs'[c].resp.status # StatusOK]_vars

\* A PUT of a1 found the album, a DELETE of a1 on the other connection was
\* answered 200 before the PUT's Update ran, and a1 is stored no more.
C25_Witness ==
    \E c, d \in Conns :
        /\ Done(c, "update") /\ reqs[c].albID = "a1"
        /\ Len(reqs[c].calls) = 2
        /\ reqs[c].calls[1].err = Nil
        /\ reqs[c].calls[2].err = ErrAlbumNotFound
        /\ reqs[c].resp.status = StatusNotFound
        /\ Done(d, "delete") /\ reqs[d].albID = "a1" /\ reqs[d].resp.status = StatusOK
        /\ "a1" \notin DOMAIN table

\* In this step the POST on c has its INSERT statement run.
PostRunsInsert(c) ==
    /\ reqs[c].kind = "create" /\ reqs[c].pc = "insert"
    /\ reqs'[c].pc = "done"

\* C26: a POST answered 201 adds one record, under an id that was not stored,
\* and changes no record that was; a POST answered otherwise changes nothing.
\* When newID returned an id that is stored when the INSERT runs, the Insert
\* fails, the answer is 500 and the stored album is as it was.
C26_PostAddsOneRecord ==
    [][\A c \in Conns :
        PostRunsInsert(c)
        => LET id == reqs[c].alb.id
           IN  /\ \A o \in DOMAIN table : o \in DOMAIN table' /\ table'[o] = table[o]
               /\ IF reqs'[c].resp.status = StatusCreated
                  THEN /\ id \notin DOMAIN table
                       /\ DOMAIN table' = DOMAIN table \cup {id}
                       /\ Cardinality(DOMAIN table') = Cardinality(DOMAIN table) + 1
                  ELSE table' = table
               /\ id \in DOMAIN table
                  => /\ LastCall(reqs'[c]).err # Nil
                     /\ reqs'[c].resp = encodeMessage(StatusInternalServerError, "internal error")]_vars

\* Two POSTs drew the same id: the first was answered 201, the second 500,
\* and the album stored is that of the first.
C26_Witness ==
    /\ Done(1, "create") /\ Done(2, "create")
    /\ reqs[1].alb.id = reqs[2].alb.id
    /\ reqs[1].resp.status = StatusCreated
    /\ reqs[2].resp.status = StatusInternalServerError
    /\ reqs[1].alb.title # reqs[2].alb.title
    /\ reqs[1].alb.id \in DOMAIN table
    /\ table[reqs[1].alb.id].title = reqs[1].alb.title

\* C27: the clock never going back, every stored album has created_at at or
\* before updated_at in every reachable state, the two are equal in the step
\* that stores a new album, and the created_at of a stored album never
\* changes, whatever POSTs and PUTs run and however they interleave.
C27_CreatedBeforeUpdated ==
    /\ [](\A id \in DOMAIN table : table[id].created_at <= table[id].updated_at)
    /\ [][/\ clock' >= clock
          /\ \A id \in DOMAIN table' \ DOMAIN table :
                table'[id].created_at = table'[id].updated_at
          /\ \A id \in DOMAIN table \cap DOMAIN table' :
                table'[id].created_at = table[id].created_at]_vars

\* A POST made album b2 and, after the clock moved, a PUT of it was answered
\* 200: its updated_at is later than its created_at, which is the time of
\* the POST.
C27_Witness ==
    \E c \in Conns :
        /\ Done(c, "update") /\ reqs[c].resp.status = StatusOK
        /\ reqs[c].albID = "b2"
        /\ "b2" \in DOMAIN table
        /\ table["b2"].created_at = NanosPerMicro
        /\ table["b2"].created_at < table["b2"].updated_at

\* The list request on c was answered 200: its response is a page.
IsPage(c) == Done(c, "list") /\ reqs[c].resp.status = StatusOK

\* The parsed page_number of a list request whose two parameters parsed.
ParsedPageNumber(c) == Atoi(QGet(reqs[c].query, "page_number")).n

\* The ids of the albums of the page on c, in the order of the body.
PageIDs(c) == [i \in 1..Len(reqs[c].resp.albums) |-> reqs[c].resp.albums[i].id]

\* ceil(N/s), the number of pages of size s the stored albums make.
PageCount(s) == (Cardinality(DOMAIN table) + s - 1) \div s

\* The ids of ids are stored, no id comes twice, and no album comes before
\* one of a lesser title.
InTitleOrder(ids) ==
    /\ \A i \in 1..Len(ids) : ids[i] \in DOMAIN table
    /\ \A i, j \in 1..Len(ids) :
          i < j => /\ ids[i] # ids[j]
                   /\ ~CollateLess(table[ids[j]].title, table[ids[i]].title)

\* The pages on c and d are two pages of one size, that of c the earlier,
\* and both within 1 .. ceil(N/s).
TwoPages(c, d) ==
    /\ IsPage(c) /\ IsPage(d)
    /\ ParsedPageSize(c) = ParsedPageSize(d)
    /\ ParsedPageNumber(c) < ParsedPageNumber(d)
    /\ ParsedPageNumber(d) <= PageCount(ParsedPageSize(c))

\* Two pages of one size share no album, together they are in title order,
\* and when they are all the pages there are they hold every stored album.
PagesPartition(c, d) ==
    /\ InTitleOrder(PageIDs(c) \o PageIDs(d))
    /\ PageCount(ParsedPageSize(c)) = 2
       => {PageIDs(c)[i] : i \in 1..Len(PageIDs(c))} \cup {PageIDs(d)[i] : i \in 1..Len(PageIDs(d))}
          = DOMAIN table

\* C28: over an unchanged store of N albums, the pages GET /albums returns
\* for one page_size s and page_number 1 .. ceil(N/s) are pairwise disjoint
\* and, one after the other, hold every stored album exactly once in title
\* order, also when several albums have the same title.
C28_PagesPartitionStore ==
    \A c, d \in Conns : TwoPages(c, d) => PagesPartition(c, d)

\* The same for a store in which no two albums have the same title.
C28_PagesPartitionDistinctTitles ==
    (\A i, j \in DOMAIN table : i # j => table[i].title # table[j].title)
    => \A c, d \in Conns : TwoPages(c, d) => PagesPartition(c, d)

\* Two albums of one title and nothing else stored, page_size 1: page 1 and
\* page 2 both hold a1, and b2 is on neither.
C28_Witness ==
    /\ DOMAIN table = {"a1", "b2"}
    /\ table["a1"].title = table["b2"].title
    /\ IsPage(1) /\ IsPage(2)
    /\ ParsedPageSize(1) = 1 /\ ParsedPageSize(2) = 1
    /\ ParsedPageNumber(1) = 1 /\ ParsedPageNumber(2) = 2
    /\ PageIDs(1) = <<"a1">>
    /\ PageIDs(2) = <<"a1">>

\* The list request on c was accepted and called FindAll.
CalledFindAll(c) == reqs[c].kind = "list" /\ Len(reqs[c].calls) = 1

\* page_size * (page_number - 1) of the request on c, in the integers.
OffsetProduct(c) == ParsedPageSize(c) * (ParsedPageNumber(c) - 1)

\* C29: for every page_number the list handler accepts (any int of at least
\* 1 that Atoi parses) and every page_size in 1..50, the offset passed to
\* FindAll is not negative and is the product page_size * (page_number - 1)
\* of the integers: the multiplication does not wrap around.
C29_OffsetDoesNotWrap ==
    \A c \in Conns :
        CalledFindAll(c)
        => /\ reqs[c].calls[1].offset >= 0
           /\ reqs[c].calls[1].offset = OffsetProduct(c)

\* The same for the requests whose product is an int.
C29_OffsetOfSmallProducts ==
    \A c \in Conns :
        (CalledFindAll(c) /\ OffsetProduct(c) <= MaxInt)
        => /\ reqs[c].calls[1].offset >= 0
           /\ reqs[c].calls[1].offset = OffsetProduct(c)

\* page_size=2 with the largest int as page_number: FindAll was called with
\* a negative offset and the request was answered 500.
C29_Witness ==
    \E c \in Conns :
        /\ CalledFindAll(c)
        /\ ParsedPageSize(c) = 2
        /\ QGet(reqs[c].query, "page_number") = LargestPage
        /\ OffsetProduct(c) > MaxInt
        /\ reqs[c].calls[1].offset < 0
        /\ reqs[c].resp.status = StatusInternalServerError

====
